---- MODULE Spec2Model ----
(***************************************************************************)
(* Model of wiki_pdf/public/js/wiki_pdf.js: the frappe.ready callback that *)
(* schedules add_download_pdf_button, and add_download_pdf_button itself,  *)
(* acting on a DOM owned by the host page.                                 *)
(*                                                                         *)
(* Strings the code computes with (pathname, route, URL) are sequences of  *)
(* one-character strings.  The DOM is a sequence of top-level elements;    *)
(* every element is a record [tag, attrs, kids].  Document order is the    *)
(* preorder of that forest.                                                *)
(***************************************************************************)
EXTENDS Integers, Sequences, FiniteSets, TLC

VARIABLES doc, pathname, marker, timers, current_route, download_url, lastOp

vars == <<doc, pathname, marker, timers, current_route, download_url, lastOp>>

(***************************************************************************)
(* Bounds of the model.                                                    *)
(***************************************************************************)
MaxNavbars  == 2   \* '.navbar-nav' elements the host page mounts
MaxChildren == 2   \* children of the first navigation bar
MaxTimers   == 2   \* pending setTimeout callbacks
MaxPathLen  == 4   \* characters of location.pathname in SpecRoute

(***************************************************************************)
(* Strings.                                                                *)
(***************************************************************************)
Last(s) == s[Len(s)]

Front(s) == SubSeq(s, 1, Len(s) - 1)

RECURSIVE SeqsUpTo(_, _)
SeqsUpTo(S, n) ==
  IF n = 0 THEN {<<>>}
  ELSE LET shorter == SeqsUpTo(S, n - 1)
       IN  shorter \cup {Append(s, c) : s \in shorter, c \in S}

\* Characters location.pathname is drawn from.
PathChars == {"/", "a", " ", "%"}

\* A browser's location.pathname always begins with the separator.
Paths == {<<"/">> \o s : s \in SeqsUpTo(PathChars, MaxPathLen - 1)}

\* The routes the host navigates between in Spec: "/a/" and "/b".
NavPaths == {<<"/", "a", "/">>, <<"/", "b">>}

\* pathname.replace(/^\//, '')
ReplaceLeadingSlash(p) ==
  IF Len(p) > 0 /\ p[1] = "/" THEN Tail(p) ELSE p

\* Faulty variant: strips every trailing separator instead of one.
RECURSIVE StripAllTrailingSlashes(_)
StripAllTrailingSlashes(r) ==
  IF Len(r) > 0 /\ Last(r) = "/" THEN StripAllTrailingSlashes(Front(r)) ELSE r

\* if (current_route.endsWith('/')) current_route = current_route.slice(0, -1)
StripTrailingSlash(r) ==
  IF Len(r) > 0 /\ Last(r) = "/" THEN Front(r) ELSE r

CurrentRoute(p) == StripTrailingSlash(ReplaceLeadingSlash(p))

\* Characters encodeURIComponent leaves alone (those of them the model uses).
Unreserved ==
  {"a", "b", "e", "g", "i", "n", "u", "M", "P", "S",
   "-", "_", ".", "!", "~", "*", "'", "(", ")"}

\* The escape of every other character the model uses (UTF-8 byte, upper hex).
PercentEscape ==
  [c \in {"/", " ", "%", "?", "&", "=", "#", "+"} |->
     CASE c = "/" -> <<"%", "2", "F">>
       [] c = " " -> <<"%", "2", "0">>
       [] c = "%" -> <<"%", "2", "5">>
       [] c = "?" -> <<"%", "3", "F">>
       [] c = "&" -> <<"%", "2", "6">>
       [] c = "=" -> <<"%", "3", "D">>
       [] c = "#" -> <<"%", "2", "3">>
       [] c = "+" -> <<"%", "2", "B">>]

\* Faulty variant: encodeURI instead of encodeURIComponent (keeps the separators).
EncodeURIChar(c) ==
  IF c \in Unreserved \cup {"/", "?", "&", "=", "#", "+"} THEN <<c>>
  ELSE PercentEscape[c]

EncodeChar(c) == IF c \in Unreserved THEN <<c>> ELSE PercentEscape[c]

RECURSIVE EncodeURIComponent(_)
EncodeURIComponent(s) ==
  IF s = <<>> THEN <<>>
  ELSE EncodeChar(Head(s)) \o EncodeURIComponent(Tail(s))

DownloadPrefix == "/api/method/wiki_pdf.pdf.download_wiki_pdf?route="

\* "/api/method/wiki_pdf.pdf.download_wiki_pdf?route=" + encodeURIComponent(r);
\* the fixed prefix is kept as one token at the head of the sequence.
DownloadUrl(r) == <<DownloadPrefix>> \o EncodeURIComponent(r)

(***************************************************************************)
(* DOM elements.                                                           *)
(***************************************************************************)
BtnId == "btn-download-wiki-pdf"

Element(tag, class, kids) ==
  [tag   |-> tag,
   attrs |-> [id |-> "", href |-> <<>>, target |-> "", rel |-> "",
              class |-> class, style |-> "", text |-> ""],
   kids  |-> kids]

\* $('<a>').attr(...).addClass(...).css(...).text(...)
NewButton(url) ==
  [tag   |-> "a",
   attrs |-> [id |-> BtnId, href |-> url, target |-> "_blank",
              rel |-> "noopener noreferrer",
              class |-> "navbar-link mr-2 d-print-none",
              style |-> "white-space: nowrap; font-weight: bold; cursor: pointer",
              text |-> "Download PDF"],
   kids  |-> <<>>]

Item == Element("li", "nav-item", <<>>)

Smc == Element("div", "sun-moon-container", <<>>)

\* A companion container that is a descendant, not a child, of the bar.
WrappedSmc == Element("li", "nav-item", <<Smc>>)

Navbar(kids) == Element("ul", "navbar-nav", kids)

IsBtn(n) == n.attrs.id = BtnId

IsSmc(n) == n.attrs.class = "sun-moon-container"

IsNavbar(n) == n.attrs.class = "navbar-nav"

\* The elements of a forest in document order.
RECURSIVE Flat(_)
Flat(s) ==
  IF s = <<>> THEN <<>>
  ELSE <<Head(s)>> \o Flat(Head(s).kids) \o Flat(Tail(s))

\* $('#btn-download-wiki-pdf') matches the first element with the id only;
\* Buttons lists every element carrying it.
Buttons(d) == SelectSeq(Flat(d), IsBtn)

HasBtn(d) == Buttons(d) /= <<>>

\* $navbar.find('.sun-moon-container'): the descendants of the bar.
Companions(nb) == SelectSeq(Flat(nb.kids), IsSmc)

\* $('.navbar-nav').first(): index of the first bar, 0 when none matches.
FirstNavbar(d) ==
  IF \E i \in DOMAIN d : IsNavbar(d[i])
  THEN CHOOSE i \in DOMAIN d :
         IsNavbar(d[i]) /\ \A j \in DOMAIN d : IsNavbar(d[j]) => i <= j
  ELSE 0

(***************************************************************************)
(* DOM operations of add_download_pdf_button.                              *)
(***************************************************************************)
\* $btn.attr('href', url) on the element the id selector matched: the first
\* element with the id, in document order.
RECURSIVE SetHref(_, _)
SetHref(s, url) ==
  IF s = <<>> THEN <<>>
  ELSE IF IsBtn(Head(s))
       THEN <<[Head(s) EXCEPT !.attrs.href = url]>> \o Tail(s)
       ELSE IF HasBtn(Head(s).kids)
            THEN <<[Head(s) EXCEPT !.kids = SetHref(@, url)]>> \o Tail(s)
            ELSE <<Head(s)>> \o SetHref(Tail(s), url)

\* Faulty variant: $container.after($btn).
RECURSIVE InsertAfter(_, _)
InsertAfter(s, b) ==
  IF s = <<>> THEN <<>>
  ELSE LET h == [Head(s) EXCEPT !.kids = InsertAfter(@, b)]
       IN  (IF IsSmc(h) THEN <<h, b>> ELSE <<h>>) \o InsertAfter(Tail(s), b)

\* $container.before($btn): jQuery inserts the element before the last matched
\* container and a clone of it (same id, same attributes) before every other.
RECURSIVE InsertBefore(_, _)
InsertBefore(s, b) ==
  IF s = <<>> THEN <<>>
  ELSE LET h == [Head(s) EXCEPT !.kids = InsertBefore(@, b)]
       IN  (IF IsSmc(h) THEN <<b, h>> ELSE <<h>>) \o InsertBefore(Tail(s), b)

\* Faulty variant: $navbar.prepend($btn).
PrependChild(kids, b) == <<b>> \o kids

\* $navbar.append($btn)
AppendChild(kids, b) == Append(kids, b)

\* Faulty variant: with no navigation bar the button is put into the document body.
PlaceInBody(d, b) ==
  LET n == FirstNavbar(d)
  IN  IF n = 0 THEN Append(d, b)
      ELSE IF Companions(d[n]) /= <<>>
           THEN [d EXCEPT ![n].kids = InsertBefore(@, b)]
           ELSE [d EXCEPT ![n].kids = AppendChild(@, b)]

\* Lines 30-52: locate the bar and the companion containers, return when no
\* bar matches, else place the new element.
PlaceButton(d, b) ==
  LET n == FirstNavbar(d)
  IN  IF n = 0 THEN d
      ELSE IF Companions(d[n]) /= <<>>
           THEN [d EXCEPT ![n].kids = InsertBefore(@, b)]
           ELSE [d EXCEPT ![n].kids = AppendChild(@, b)]

\* Faulty variant: the update path does not return and goes on to insert.
UpdateThenInsert(d, url) ==
  IF HasBtn(d) THEN PlaceButton(SetHref(d, url), NewButton(url))
  ELSE PlaceButton(d, NewButton(url))

\* The DOM after add_download_pdf_button ran with download_url = url.
add_download_pdf_button(d, url) ==
  IF HasBtn(d) THEN SetHref(d, url)
  ELSE PlaceButton(d, NewButton(url))

\* The branch add_download_pdf_button takes on DOM d.
Outcome(d) ==
  IF HasBtn(d) THEN "update"
  ELSE IF FirstNavbar(d) = 0 THEN "abort" ELSE "create"

Invoked == {"update", "abort", "create"}

(***************************************************************************)
(* The host page.                                                          *)
(***************************************************************************)
\* Shapes of the first navigation bar the host renders.
NavbarShapes ==
  {Navbar(k) : k \in SeqsUpTo({Item, Smc, WrappedSmc}, MaxChildren)}

\* Shapes of the navigation bars after the first.
LaterNavbars == {Navbar(<<Item>>), Navbar(<<Smc>>)}

Init ==
  /\ doc \in {<<>>} \cup {<<nb>> : nb \in NavbarShapes}
  /\ pathname \in NavPaths
  /\ marker \in BOOLEAN
  /\ timers = 0
  /\ current_route = <<>>
  /\ download_url = <<>>
  /\ lastOp = "load"

\* Faulty variant: the timer is scheduled without testing the marker.
ScheduleAlways(m, t) == t + 1

\* if ($('.wiki-content').length > 0) setTimeout(add_download_pdf_button, 500)
Schedule(m, t) == IF m THEN t + 1 ELSE t

\* The callback passed to frappe.ready runs.
ReadyCallback ==
  /\ marker => timers < MaxTimers
  /\ timers' = Schedule(marker, timers)
  /\ lastOp' = "ready"
  /\ UNCHANGED <<doc, pathname, marker, current_route, download_url>>

\* A pending timer fires and runs add_download_pdf_button.
TimerFire ==
  /\ timers > 0
  /\ timers' = timers - 1
  /\ current_route' = CurrentRoute(pathname)
  /\ download_url' = DownloadUrl(current_route')
  /\ doc' = add_download_pdf_button(doc, download_url')
  /\ lastOp' = Outcome(doc)
  /\ UNCHANGED <<pathname, marker>>

\* Client-side navigation: the path changes, the page is not reloaded, and the
\* new page may or may not show wiki content.
RouteChange ==
  /\ \E p \in NavPaths \ {pathname} : pathname' = p
  /\ marker' \in BOOLEAN
  /\ lastOp' = "route"
  /\ UNCHANGED <<doc, timers, current_route, download_url>>

\* The host mounts a navigation bar it renders asynchronously.
MountNavbar ==
  /\ Len(doc) < MaxNavbars
  /\ \E nb \in (IF doc = <<>> THEN NavbarShapes ELSE LaterNavbars) :
       doc' = Append(doc, nb)
  /\ lastOp' = "mount"
  /\ UNCHANGED <<pathname, marker, timers, current_route, download_url>>

Next == ReadyCallback \/ TimerFire \/ RouteChange \/ MountNavbar

Spec == Init /\ [][Next]_vars

(***************************************************************************)
(* The route and URL computation over every path up to MaxPathLen.         *)
(***************************************************************************)
InitRoute ==
  /\ doc \in {<<Navbar(<<Item>>)>>, <<Navbar(<<Item, Smc>>)>>}
  /\ pathname \in Paths
  /\ marker = TRUE
  /\ timers = 0
  /\ current_route = <<>>
  /\ download_url = <<>>
  /\ lastOp = "load"

NextRoute == ReadyCallback \/ TimerFire

SpecRoute == InitRoute /\ [][NextRoute]_vars

(***************************************************************************)
(* Helpers of the properties.                                              *)
(***************************************************************************)
\* An element without its subtree.
Self(n) == [n EXCEPT !.kids = <<>>]

\* Index in document order of the first element with the button's id.
FirstBtnIndex(d) ==
  CHOOSE i \in 1..Len(Flat(d)) :
    IsBtn(Flat(d)[i]) /\ \A j \in 1..(i - 1) : ~IsBtn(Flat(d)[j])

\* The forest without the elements that carry the button's id.
RECURSIVE WithoutButtons(_)
WithoutButtons(s) ==
  IF s = <<>> THEN <<>>
  ELSE IF IsBtn(Head(s)) THEN WithoutButtons(Tail(s))
       ELSE <<[Head(s) EXCEPT !.kids = WithoutButtons(@)]>>
              \o WithoutButtons(Tail(s))

\* In every sibling list of the forest, each companion container has the
\* button with href url as its immediately preceding sibling.
RECURSIVE CompanionsPreceded(_, _)
CompanionsPreceded(s, url) ==
  \A i \in 1..Len(s) :
    /\ IsSmc(s[i]) => (i > 1 /\ s[i - 1] = NewButton(url))
    /\ CompanionsPreceded(s[i].kids, url)

\* q is r with '/' written %2F, ' ' written %20, unreserved characters kept
\* and any other character written as some three-character escape.
RECURSIVE Encodes(_, _)
Encodes(q, r) ==
  IF r = <<>> THEN q = <<>>
  ELSE CASE Head(r) = "/" ->
              /\ Len(q) >= 3
              /\ SubSeq(q, 1, 3) = <<"%", "2", "F">>
              /\ Encodes(SubSeq(q, 4, Len(q)), Tail(r))
         [] Head(r) = " " ->
              /\ Len(q) >= 3
              /\ SubSeq(q, 1, 3) = <<"%", "2", "0">>
              /\ Encodes(SubSeq(q, 4, Len(q)), Tail(r))
         [] Head(r) \in Unreserved ->
              /\ Len(q) >= 1
              /\ q[1] = Head(r)
              /\ Encodes(Tail(q), Tail(r))
         [] OTHER ->
              /\ Len(q) >= 3
              /\ q[1] = "%"
              /\ Encodes(SubSeq(q, 4, Len(q)), Tail(r))

MainSubPage ==
  <<"M", "a", "i", "n", "/", "S", "u", "b", " ", "P", "a", "g", "e">>

MainSubPageEncoded ==
  <<"M", "a", "i", "n", "%", "2", "F", "S", "u", "b", "%", "2", "0",
    "P", "a", "g", "e">>

(***************************************************************************)
(* Properties.                                                             *)
(***************************************************************************)

\* C1: in every reachable state the document holds at most one element with
\* the id 'btn-download-wiki-pdf'.
C1_AtMostOneButton == Len(Buttons(doc)) <= 1

\* C2: whenever the button exists, its href is the download URL of the route
\* currently displayed, also after a route change without a new ready signal.
C2_HrefFollowsRoute ==
  HasBtn(doc) =>
    Buttons(doc)[1].attrs.href = DownloadUrl(CurrentRoute(pathname))

\* C3: a ready signal that finds no '.wiki-content' element schedules no
\* timer and leaves the DOM as it is.
C3_NoMarkerNoWork ==
  [][(lastOp' = "ready" /\ ~marker) =>
       (timers' = timers /\ doc' = doc)]_vars

C3_Witness == lastOp = "ready" /\ ~marker /\ timers = 0 /\ ~HasBtn(doc)

C5_BeforeCompanion ==
  [][(lastOp' = "create" /\ Companions(doc[FirstNavbar(doc)]) /= <<>>) =>
       /\ CompanionsPreceded(doc'[FirstNavbar(doc)].kids, download_url')
       /\ HasBtn(doc')
       /\ WithoutButtons(doc') = doc]_vars

C5_Witness ==
  /\ lastOp = "create"
  /\ FirstNavbar(doc) /= 0
  /\ Companions(doc[FirstNavbar(doc)]) /= <<>>
  /\ HasBtn(doc)

\* C6: when the button is created and the first navigation bar contains no
\* companion container, the button becomes the bar's last child, after the
\* bar's previous children in their order; nothing else changes.
C6_AppendedLast ==
  [][(lastOp' = "create" /\ Companions(doc[FirstNavbar(doc)]) = <<>>) =>
       LET n      == FirstNavbar(doc)
           before == doc[n].kids
           after  == doc'[n].kids
       IN  /\ Len(after) = Len(before) + 1
           /\ SubSeq(after, 1, Len(before)) = before
           /\ Last(after) = NewButton(download_url')
           /\ Len(doc') = Len(doc)
           /\ Self(doc'[n]) = Self(doc[n])
           /\ \A i \in DOMAIN doc : i /= n => doc'[i] = doc[i]]_vars

C6_Witness ==
  /\ lastOp = "create"
  /\ FirstNavbar(doc) /= 0
  /\ Companions(doc[FirstNavbar(doc)]) = <<>>
  /\ Len(doc[FirstNavbar(doc)].kids) > 1
  /\ IsBtn(Last(doc[FirstNavbar(doc)].kids))

\* C7: for a path p that starts with '/', current_route is p without its
\* first '/', and without one trailing '/' when that remainder ends in one.
C7_RouteDerivation ==
  lastOp \in Invoked =>
    \/ /\ pathname = <<"/">> \o current_route
       /\ (current_route = <<>> \/ Last(current_route) /= "/")
    \/ pathname = <<"/">> \o current_route \o <<"/">>

C7_Witness ==
  /\ lastOp \in Invoked
  /\ pathname = <<"/", "a", "/", "/">>
  /\ current_route = <<"a", "/">>

\* C8: download_url is the fixed prefix followed by the percent-encoding of
\* the route ('/' as %2F, ' ' as %20), and it is the href of the button that
\* was just created or updated.
C8_UrlConstruction ==
  /\ EncodeURIComponent(MainSubPage) = MainSubPageEncoded
  /\ lastOp \in Invoked =>
       /\ download_url[1] = DownloadPrefix
       /\ Encodes(Tail(download_url), current_route)
  /\ lastOp \in {"create", "update"} =>
       Buttons(doc)[1].attrs.href = download_url

C8_Witness ==
  /\ lastOp = "update"
  /\ current_route = <<"a", "/", " ">>
  /\ Buttons(doc)[1].attrs.href =
       <<DownloadPrefix, "a", "%", "2", "F", "%", "2", "0">>

\* C9: after the last run of add_download_pdf_button, when a navigation bar
\* exists, the document holds exactly one button and its href is the URL of
\* the route that run read.
C9_OneButtonAfterRuns ==
  (lastOp \in Invoked /\ FirstNavbar(doc) /= 0) =>
    /\ Len(Buttons(doc)) = 1
    /\ Buttons(doc)[1].attrs.href = download_url

====
